---------------------------- MODULE Spec2Model ----------------------------
(***************************************************************************)
(* University Summer Programs scraper: the scrape / extract / persist      *)
(* pipeline of src/main.py and the record store of                         *)
(* src/database_handler.py.                                                *)
(*                                                                         *)
(* Strings whose characters matter (URLs, derived names, ids) are          *)
(* sequences of tokens; the tokens "https://", "http://", "/" and "_" are  *)
(* the substrings the code searches for or inserts, every other token is a *)
(* run of characters holding none of them.  Timestamps are readings of a   *)
(* clock that advances by one at every merge.  JSON (de)serialisation of   *)
(* the Collection is lossless on the values used here (strings, integers,  *)
(* null, lists, dicts), so the file holds the Collection itself.           *)
(***************************************************************************)
EXTENDS Integers, Sequences, FiniteSets, TLC

VARIABLES
    file,        \* the storage file DATABASE_FILE: [state, data]
    fileUrls,    \* history: the sourceUrls merged into the Collection the file holds
    pc,          \* per run: position in the button handler
    url,         \* per run: the URL typed in
    content,     \* per run: result of simple_scrape ("none", "empty", "text")
    programs,    \* per run: result of extract_programs_with_openai
    completion,  \* per run: what the completion text was
    database,    \* per run: the Collection held in memory by add_programs_to_database
    dbUrls,      \* history: the sourceUrls merged into database[p]
    loaded,      \* history: the Collection load_database returned to this run
    saved,       \* per run: what save_database returned ("none", "true", "false")
    messages,    \* per run: the st.* messages surfaced to the user
    stages,      \* per run: the pipeline stages entered, in order
    clock,       \* datetime.now()
    runs,        \* number of handler invocations started
    lastWriter   \* history: the run whose save_database last wrote the file

vars == <<file, fileUrls, pc, url, content, programs, completion, database,
          dbUrls, loaded, saved, messages, stages, clock, runs, lastWriter>>

(***************************************************************************)
(* Bounds                                                                  *)
(***************************************************************************)
\* handler invocations started, over all concurrent sessions
MaxRuns == 2

\* direct calls of the record store
MaxCalls == 3

Procs == {1, 2}

(***************************************************************************)
(* Values                                                                  *)
(***************************************************************************)
\* Python None as a timestamp (last_updated of the empty Collection)
None == -1

\* marker of a key that the dict does not hold
Absent == "<absent>"

UrlMit   == <<"https://", "mit.edu", "/", "summer">>
UrlA     == <<"https://", "a.edu">>
UrlASl   == <<"https://", "a.edu", "/">>
UrlNext  == <<"http://", "a.edu", "?next=", "https://", "b.edu", "/", "x">>

Urls == {UrlMit, UrlA, UrlASl, UrlNext}

\* dicts the completion can hold: only the key 'name' is read by the store
CodeCamp  == [name |-> "Code Camp"]
NoName    == [name |-> Absent]
EmptyName == [name |-> ""]

RecordLists == { <<>>, <<CodeCamp>>, <<NoName>>, <<EmptyName, CodeCamp>> }

EmptyCollection ==
    [programs |-> <<>>, universities |-> <<>>,
     last_updated |-> None, total_programs |-> 0]


NoResult == [isNone |-> TRUE, list |-> <<>>]

NotLoaded == [from |-> [state |-> "absent", data |-> EmptyCollection],
              raised |-> FALSE, value |-> EmptyCollection]

(***************************************************************************)
(* String helpers (Python str.replace, str.split, f-string)                *)
(***************************************************************************)
\* s.replace(tok, ''): every occurrence goes, wherever it is
Replace(s, tok) == SelectSeq(s, LAMBDA t : t # tok)

\* s.split(tok)[0]: up to, not including, the first tok
RECURSIVE SplitFirst(_, _)
SplitFirst(s, tok) ==
    IF s = <<>> \/ Head(s) = tok THEN <<>>
    ELSE <<Head(s)>> \o SplitFirst(Tail(s), tok)

\* dict.get(key, default) on the one key the store reads
Get(d, default) == IF d.name = Absent THEN default ELSE d.name

(***************************************************************************)
(* database_handler.py                                                     *)
(***************************************************************************)
os_path_exists(f) == f.state # "absent"

\* open + json.load: raises on content that is not JSON
json_load(f) == [raised |-> f.state # "ok", value |-> f.data]

load_database_NoTry(f) ==
    IF os_path_exists(f)
    THEN [raised |-> json_load(f).raised, value |-> json_load(f).value]
    ELSE [raised |-> FALSE, value |-> EmptyCollection]

load_database(f) ==
    IF os_path_exists(f)
    THEN IF ~json_load(f).raised
         THEN [raised |-> FALSE, value |-> json_load(f).value]
         ELSE [raised |-> FALSE, value |-> EmptyCollection]
    ELSE [raised |-> FALSE, value |-> EmptyCollection]

\* how: "ok", "open" (open(..., 'w') raises: nothing written) or "dump"
\* (json.dump raises after open truncated the file: partial content)
save_database_KeepDisk(f, db, how) ==
    CASE how = "ok"   -> [file |-> [state |-> "ok",
                                    data |-> IF f.state = "ok"
                                             THEN [db EXCEPT !.programs = f.data.programs \o db.programs]
                                             ELSE db],
                          ok |-> TRUE]
      [] how = "open" -> [file |-> f, ok |-> FALSE]
      [] OTHER        -> [file |-> [state |-> "corrupt", data |-> EmptyCollection],
                          ok |-> FALSE]

save_database(f, db, how) ==
    CASE how = "ok"   -> [file |-> [state |-> "ok", data |-> db], ok |-> TRUE]
      [] how = "open" -> [file |-> f, ok |-> FALSE]
      [] OTHER        -> [file |-> [state |-> "corrupt", data |-> EmptyCollection],
                          ok |-> FALSE]

university_name(university_url) ==
    SplitFirst(Replace(Replace(university_url, "https://"), "http://"), "/")

existing_urls(unis) == { unis[i].url : i \in DOMAIN unis }

\* a trailing "/" is ignored when matching
Normal(u) == IF u # <<>> /\ u[Len(u)] = "/" THEN SubSeq(u, 1, Len(u) - 1) ELSE u

update_universities_Normalised(unis, u, n, now) ==
    IF Normal(u) \notin { Normal(unis[i].url) : i \in DOMAIN unis }
    THEN Append(unis, [name |-> university_name(u), url |-> u,
                       scraped_at |-> now, programs_count |-> n])
    ELSE [i \in DOMAIN unis |->
            IF Normal(unis[i].url) = Normal(u)
            THEN [unis[i] EXCEPT !.scraped_at = now,
                                 !.programs_count = unis[i].programs_count + n]
            ELSE unis[i]]

\* the count is replaced, not incremented, on a re-scrape
update_universities_Replace(unis, u, n, now) ==
    IF u \notin { unis[i].url : i \in DOMAIN unis }
    THEN Append(unis, [name |-> university_name(u), url |-> u,
                       scraped_at |-> now, programs_count |-> n])
    ELSE [i \in DOMAIN unis |->
            IF unis[i].url = u
            THEN [unis[i] EXCEPT !.scraped_at = now, !.programs_count = n]
            ELSE unis[i]]

update_universities(unis, u, n, now) ==
    IF u \notin existing_urls(unis)
    THEN Append(unis, [name |-> university_name(u), url |-> u,
                       scraped_at |-> now, programs_count |-> n])
    ELSE [i \in DOMAIN unis |->
            IF unis[i].url = u
            THEN [unis[i] EXCEPT !.scraped_at = now,
                                 !.programs_count = unis[i].programs_count + n]
            ELSE unis[i]]

\* the suffix is the length after the append
program_id_AfterAppend(uname, program, len) ==
    uname \o <<"_", Get(program, "unknown"), "_", ToString(len + 1)>>

program_id(uname, program, len) ==
    uname \o <<"_", Get(program, "unknown"), "_", ToString(len)>>

program_with_meta(program, u, now, len) ==
    [name |-> program.name,
     university |-> university_name(u),
     source_url |-> u,
     added_at |-> now,
     id |-> program_id(university_name(u), program, len)]

\* a record whose name the Collection already holds is skipped
RECURSIVE append_programs_Dedup(_, _, _, _)
append_programs_Dedup(progs, new, u, now) ==
    IF new = <<>> THEN progs
    ELSE append_programs_Dedup(
            IF \E i \in DOMAIN progs : progs[i].name = Head(new).name
            THEN progs
            ELSE Append(progs, program_with_meta(Head(new), u, now, Len(progs))),
            Tail(new), u, now)

RECURSIVE append_programs(_, _, _, _)
append_programs(progs, new, u, now) ==
    IF new = <<>> THEN progs
    ELSE append_programs(
            Append(progs, program_with_meta(Head(new), u, now, Len(progs))),
            Tail(new), u, now)

\* total_programs is left as loaded
update_metadata_Stale(db, now) == [db EXCEPT !.last_updated = now]

update_metadata(db, now) ==
    [db EXCEPT !.last_updated = now, !.total_programs = Len(db.programs)]

\* the body of add_programs_to_database after its load_database() call
add_programs_to_database(db, new, u, now) ==
    update_metadata(
        [db EXCEPT !.universities = update_universities(db.universities, u, Len(new), now),
                   !.programs = append_programs(db.programs, new, u, now)],
        now)

(***************************************************************************)
(* main.py                                                                 *)
(***************************************************************************)
\* what requests.get / BeautifulSoup did: "fetch_error" (transport error,
\* bad status, timeout), "parse_error" (the HTML parser raised), "empty"
\* (no visible text is left) or "text"
ScrapeOutcomes == {"fetch_error", "parse_error", "empty", "text"}

\* the value simple_scrape returns: None ("none"), '' ("empty") or text
simple_scrape(outcome) ==
    IF outcome \in {"fetch_error", "parse_error"} THEN "none"
    ELSE IF outcome = "empty" THEN "empty" ELSE "text"

\* the stages simple_scrape entered
scrape_stages(outcome) ==
    IF outcome = "fetch_error" THEN <<"fetch">> ELSE <<"fetch", "text">>

\* Python truth of the scraped content (`if content:`)
Truthy(c) == c = "text"

\* what the completion endpoint answered, after the fence is stripped
Completions ==
    { [kind |-> "api_error", list |-> <<>>],
      [kind |-> "malformed", list |-> <<>>],
      [kind |-> "not_a_list", list |-> <<>>] }
    \cup { [kind |-> "list", list |-> l] : l \in RecordLists }

\* returns the value and the messages it surfaced itself
extract_programs_with_openai(api_key, c) ==
    IF ~api_key
    THEN [isNone |-> TRUE, list |-> <<>>, msgs |-> {"missing_key"}, called |-> FALSE]
    ELSE CASE c.kind = "api_error" ->
                [isNone |-> TRUE, list |-> <<>>, msgs |-> {"api_error"}, called |-> TRUE]
           [] c.kind = "malformed" ->
                [isNone |-> FALSE, list |-> <<>>,
                 msgs |-> {"parse_error", "raw_output"}, called |-> TRUE]
           [] c.kind = "not_a_list" ->
                [isNone |-> FALSE, list |-> <<>>, msgs |-> {}, called |-> TRUE]
           [] OTHER ->
                [isNone |-> FALSE, list |-> c.list, msgs |-> {}, called |-> TRUE]

\* the branch main takes on the extractor's value (lines 168, 227, 229)
extract_branch(r) ==
    IF ~r.isNone /\ r.list # <<>> THEN "found"
    ELSE IF ~r.isNone /\ r.list = <<>> THEN "no_programs"
    ELSE "extract_failed"

TypeOK ==
    /\ file.state \in {"absent", "corrupt", "ok"}
    /\ pc \in [Procs -> {"idle", "scraped", "extracted", "loaded", "merged", "done"}]
    /\ runs \in 0..(MaxRuns + MaxCalls)
    /\ lastWriter \in Procs \cup {0}

Init ==
    /\ file = [state |-> "absent", data |-> EmptyCollection]
    /\ fileUrls = {}
    /\ pc = [p \in Procs |-> "idle"]
    /\ url = [p \in Procs |-> <<>>]
    /\ content = [p \in Procs |-> "none"]
    /\ programs = [p \in Procs |-> NoResult]
    /\ completion = [p \in Procs |-> "none"]
    /\ database = [p \in Procs |-> EmptyCollection]
    /\ dbUrls = [p \in Procs |-> {}]
    /\ loaded = [p \in Procs |-> NotLoaded]
    /\ saved = [p \in Procs |-> "none"]
    /\ messages = [p \in Procs |-> {}]
    /\ stages = [p \in Procs |-> <<>>]
    /\ clock = 1
    /\ runs = 0
    /\ lastWriter = 0

\* a run starts: every per-run variable is fresh
StartRun(p, u, max) ==
    /\ pc[p] \in {"idle", "done"}
    /\ runs < max
    /\ runs' = runs + 1
    /\ url' = [url EXCEPT ![p] = u]
    /\ completion' = [completion EXCEPT ![p] = "none"]
    /\ database' = [database EXCEPT ![p] = EmptyCollection]
    /\ dbUrls' = [dbUrls EXCEPT ![p] = {}]
    /\ loaded' = [loaded EXCEPT ![p] = NotLoaded]
    /\ saved' = [saved EXCEPT ![p] = "none"]

\* the button is pressed (url and api_key are set, or it is disabled):
\* lines 154-163
Scrape(p) ==
    \E u \in Urls, o \in ScrapeOutcomes :
        /\ StartRun(p, u, MaxRuns)
        /\ content' = [content EXCEPT ![p] = simple_scrape(o)]
        /\ stages' = [stages EXCEPT ![p] = scrape_stages(o)]
        /\ programs' = [programs EXCEPT ![p] = NoResult]
        /\ messages' = [messages EXCEPT ![p] =
               IF simple_scrape(o) = "none" THEN {"scrape_error"}
               ELSE IF Truthy(simple_scrape(o)) THEN {"scraped_ok"} ELSE {}]
        /\ pc' = [pc EXCEPT ![p] =
               IF Truthy(simple_scrape(o)) THEN "scraped" ELSE "done"]
        /\ UNCHANGED <<file, fileUrls, clock, lastWriter>>

\* lines 165-169 and 227-230
Extract(p) ==
    /\ pc[p] = "scraped"
    /\ \E c \in Completions :
        LET r == extract_programs_with_openai(TRUE, c)
            b == extract_branch(r)
        IN  /\ completion' = [completion EXCEPT ![p] = c.kind]
            /\ programs' = [programs EXCEPT ![p] = [isNone |-> r.isNone, list |-> r.list]]
            /\ stages' = [stages EXCEPT ![p] =
                   IF r.called THEN Append(@, "completion") ELSE @]
            /\ messages' = [messages EXCEPT ![p] = @ \cup r.msgs \cup {b}]
            /\ pc' = [pc EXCEPT ![p] = IF b = "found" THEN "extracted" ELSE "done"]
    /\ UNCHANGED <<file, fileUrls, url, content, database, dbUrls, loaded,
                   saved, clock, runs, lastWriter>>

\* add_programs_to_database, line 46
Load(p) ==
    /\ pc[p] = "extracted"
    /\ LET r == load_database(file)
       IN  /\ loaded' = [loaded EXCEPT ![p] =
                  [from |-> file, raised |-> r.raised, value |-> r.value]]
           /\ database' = [database EXCEPT ![p] = r.value]
           /\ dbUrls' = [dbUrls EXCEPT ![p] = IF file.state = "ok" THEN fileUrls ELSE {}]
           /\ pc' = [pc EXCEPT ![p] = IF r.raised THEN "done" ELSE "loaded"]
           /\ messages' = [messages EXCEPT ![p] =
                  IF r.raised THEN @ \cup {"exception"} ELSE @]
    /\ stages' = [stages EXCEPT ![p] = Append(@, "merge")]
    /\ UNCHANGED <<file, fileUrls, url, content, programs, completion, saved,
                   clock, runs, lastWriter>>

\* add_programs_to_database, lines 48-84
Merge(p) ==
    /\ pc[p] = "loaded"
    /\ database' = [database EXCEPT ![p] =
           add_programs_to_database(@, programs[p].list, url[p], clock)]
    /\ dbUrls' = [dbUrls EXCEPT ![p] = @ \cup {url[p]}]
    /\ clock' = clock + 1
    /\ pc' = [pc EXCEPT ![p] = "merged"]
    /\ UNCHANGED <<file, fileUrls, url, content, programs, completion, loaded,
                   saved, messages, stages, runs, lastWriter>>

\* lines 174-180
Save(p) ==
    /\ pc[p] = "merged"
    /\ \E how \in {"ok", "open", "dump"} :
        LET r == save_database(file, database[p], how)
        IN  /\ file' = r.file
            /\ fileUrls' = IF how = "ok" THEN dbUrls[p]
                           ELSE IF how = "open" THEN fileUrls ELSE {}
            /\ lastWriter' = IF how = "open" THEN lastWriter ELSE p
            /\ saved' = [saved EXCEPT ![p] = IF r.ok THEN "true" ELSE "false"]
            /\ messages' = [messages EXCEPT ![p] =
                   @ \cup (IF r.ok THEN {"saved", "added"} ELSE {"save_error", "save_failed"})]
    /\ stages' = [stages EXCEPT ![p] = Append(@, "save")]
    /\ pc' = [pc EXCEPT ![p] = "done"]
    /\ UNCHANGED <<url, content, programs, completion, database, dbUrls, loaded,
                   clock, runs>>

Next == \E p \in Procs : Scrape(p) \/ Extract(p) \/ Load(p) \/ Merge(p) \/ Save(p)

Spec == Init /\ [][Next]_vars

\* a caller of the record store alone: add_programs_to_database(programs, url)
\* with any list, then save_database
Call ==
    \E u \in Urls, l \in RecordLists :
        /\ StartRun(1, u, MaxCalls)
        /\ programs' = [programs EXCEPT ![1] = [isNone |-> FALSE, list |-> l]]
        /\ content' = [content EXCEPT ![1] = "none"]
        /\ stages' = [stages EXCEPT ![1] = <<>>]
        /\ messages' = [messages EXCEPT ![1] = {}]
        /\ pc' = [pc EXCEPT ![1] = "extracted"]
        /\ UNCHANGED <<file, fileUrls, clock, lastWriter>>

NextStore == Call \/ Load(1) \/ Merge(1) \/ Save(1)

StoreSpec == Init /\ [][NextStore]_vars

(***************************************************************************)
(* Properties                                                              *)
(***************************************************************************)
Range(q) == { q[i] : i \in DOMAIN q }

\* the run of p has returned from add_programs_to_database
Merged(p) == pc[p] = "merged" \/ (pc[p] = "done" /\ saved[p] # "none")

\* what add_programs_to_database loaded, was given and returned
Old(p) == loaded[p].value
New(p) == database[p]
Given(p) == programs[p].list

\* the Collections in existence: returned by a merge, or held by the file
Collections ==
    { database[p] : p \in { q \in Procs : Merged(q) } }
    \cup (IF file.state = "ok" THEN {file.data} ELSE {})

RECURSIVE SumCounts(_)
SumCounts(unis) ==
    IF unis = <<>> THEN 0 ELSE Head(unis).programs_count + SumCounts(Tail(unis))

\* C1: after every merge the returned Collection has total_programs equal to
\* the length of programs, and so has every Collection the file holds.
C1_TotalIsLength ==
    \A c \in Collections : c.total_programs = Len(c.programs)

C1_Witness ==
    /\ pc[1] = "merged"
    /\ Len(Old(1).programs) >= 1
    /\ Len(Given(1)) = 2
    /\ New(1).total_programs = 3

\* C2: a merge appends: the programs it returns are the loaded programs,
\* unchanged and in place, followed by one record per given record, in the
\* order given.
C2_AppendOnly ==
    \A p \in Procs : Merged(p) =>
        /\ Len(New(p).programs) = Len(Old(p).programs) + Len(Given(p))
        /\ SubSeq(New(p).programs, 1, Len(Old(p).programs)) = Old(p).programs
        /\ \A i \in DOMAIN Given(p) :
              /\ New(p).programs[Len(Old(p).programs) + i].name = Given(p)[i].name
              /\ New(p).programs[Len(Old(p).programs) + i].source_url = url[p]

C2_Witness ==
    /\ pc[1] = "merged"
    /\ Len(Old(1).programs) = 2
    /\ Given(1) = <<EmptyName, CodeCamp>>
    /\ Old(1).programs[2].name = "Code Camp"

\* C3: a Collection built by merges from the empty one holds exactly one
\* University Entry per distinct sourceUrl string merged into it; URLs that
\* differ in a trailing slash are distinct.
C3_OneEntryPerUrl ==
    /\ \A p \in Procs : Merged(p) =>
          /\ existing_urls(New(p).universities) = dbUrls[p]
          /\ Len(New(p).universities) = Cardinality(dbUrls[p])
    /\ file.state = "ok" =>
          /\ existing_urls(file.data.universities) = fileUrls
          /\ Len(file.data.universities) = Cardinality(fileUrls)

C3_Witness ==
    /\ file.state = "ok"
    /\ fileUrls = {UrlA, UrlASl}
    /\ Len(file.data.universities) = 2
    /\ \E i \in DOMAIN file.data.universities :
          /\ file.data.universities[i].url = UrlA
          /\ file.data.universities[i].scraped_at = 3

\* the derived name and the name slot as C4 states them
PrefixStripped(u) ==
    IF u # <<>> /\ Head(u) \in {"https://", "http://"} THEN Tail(u) ELSE u

NameOrUnknown(program) ==
    IF program.name \in {Absent, ""} THEN "unknown" ELSE program.name

\* C4 as stated: every record a merge appends has id "{derivedName}_{N}_{L}":
\* derivedName the URL without its scheme prefix, cut at the first "/"; N the
\* record's name, or 'unknown' when the name is absent or empty; L the length
\* of programs just before the record was appended.
C4_IdFormat ==
    \A p \in Procs : Merged(p) =>
        \A i \in DOMAIN Given(p) :
            New(p).programs[Len(Old(p).programs) + i].id =
                SplitFirst(PrefixStripped(url[p]), "/")
                \o <<"_", NameOrUnknown(Given(p)[i]), "_",
                     ToString(Len(Old(p).programs) + i - 1)>>

\* the derived name and the name slot as C4 is amended
SchemesRemoved(u) == SelectSeq(u, LAMBDA t : t \notin {"https://", "http://"})

NameIfKeyed(program) ==
    IF program.name = Absent THEN "unknown" ELSE program.name

\* C4 amended: derivedName is the URL with every occurrence of https:// and
\* of http:// removed, cut at the first "/"; N is the record's name whenever
\* the record has the key (an empty name included), 'unknown' only when the
\* key is absent; L as stated.  Merging [{"name": "Code Camp"}] from
\* https://mit.edu/summer into the empty Collection gives id
\* mit.edu_Code Camp_0, one University Entry of count 1, total_programs 1.
C4_IdFormatAsCoded ==
    \A p \in Procs : Merged(p) =>
        /\ \A i \in DOMAIN Given(p) :
              New(p).programs[Len(Old(p).programs) + i].id =
                  SplitFirst(SchemesRemoved(url[p]), "/")
                  \o <<"_", NameIfKeyed(Given(p)[i]), "_",
                       ToString(Len(Old(p).programs) + i - 1)>>
        /\ (Old(p) = EmptyCollection /\ Given(p) = <<CodeCamp>> /\ url[p] = UrlMit) =>
              /\ Len(New(p).programs) = 1
              /\ New(p).programs[1].id = <<"mit.edu", "_", "Code Camp", "_", "0">>
              /\ Len(New(p).universities) = 1
              /\ New(p).universities[1].programs_count = 1
              /\ New(p).total_programs = 1

C4_Witness ==
    /\ pc[1] = "merged"
    /\ Len(Old(1).programs) = 1
    /\ Old(1).programs[1].id = <<"mit.edu", "_", "Code Camp", "_", "0">>
    /\ Given(1) = <<EmptyName, CodeCamp>>
    /\ url[1] = UrlNext
    /\ New(1).programs[2].id = <<"a.edu", "?next=", "b.edu", "_", "", "_", "1">>
    /\ New(1).programs[3].id = <<"a.edu", "?next=", "b.edu", "_", "Code Camp", "_", "2">>

\* C5: a run whose completion text is not JSON ends as a failed extraction and
\* not in the "no matching programs" notice of a run whose completion is [].
C5_ParseFailureDistinct ==
    \A p \in Procs : (pc[p] = "done" /\ completion[p] = "malformed") =>
        /\ "extract_failed" \in messages[p]
        /\ "no_programs" \notin messages[p]

StageOrder == <<"fetch", "text", "completion", "merge", "save">>

\* one step of a run, as C6 wants it
C6_Step ==
    \A p \in Procs :
        /\ stages'[p] = SubSeq(StageOrder, 1, Len(stages'[p]))
        /\ "completion" \in Range(stages'[p]) => content'[p] = "text"
        /\ "merge" \in Range(stages'[p]) =>
              ~programs'[p].isNone /\ programs'[p].list # <<>>
        /\ (pc[p] # "done" /\ pc'[p] = "done" /\ "merge" \notin Range(stages'[p])) =>
              /\ file' = file
              /\ messages'[p] # {}

\* C6: the stages of a run are entered in the order fetch, text extraction,
\* completion, record store, each only after the ones before it succeeded; a
\* step that ends a run before the record store leaves the file as it was
\* and the run has surfaced a message.
C6_StagesShortCircuit == [][C6_Step]_vars

\* the parts of a merge of no records that C7 and its amendment share
EmptyMergeFrame(p) ==
    /\ New(p).programs = Old(p).programs
    /\ New(p).total_programs = Old(p).total_programs
    /\ url[p] \notin existing_urls(Old(p).universities) =>
          /\ Len(New(p).universities) = Len(Old(p).universities) + 1
          /\ SubSeq(New(p).universities, 1, Len(Old(p).universities)) = Old(p).universities
          /\ New(p).universities[Len(New(p).universities)].url = url[p]
          /\ New(p).universities[Len(New(p).universities)].programs_count = 0

\* C7 as stated: merging no records changes only last_updated and, for a new
\* URL, appends a zero-count entry; every pre-existing University Entry keeps
\* every field.
C7_EmptyMergeKeepsEntries ==
    \A p \in Procs : (Merged(p) /\ Given(p) = <<>>) =>
        /\ EmptyMergeFrame(p)
        /\ url[p] \in existing_urls(Old(p).universities) =>
              New(p).universities = Old(p).universities

\* C7 amended: ... every pre-existing University Entry keeps every field,
\* except that the entry matching the URL gets scraped_at overwritten.
C7_EmptyMergeKeepsEntriesButScrapedAt ==
    \A p \in Procs : (Merged(p) /\ Given(p) = <<>>) =>
        /\ EmptyMergeFrame(p)
        /\ url[p] \in existing_urls(Old(p).universities) =>
              /\ Len(New(p).universities) = Len(Old(p).universities)
              /\ \A i \in DOMAIN Old(p).universities :
                    IF Old(p).universities[i].url = url[p]
                    THEN New(p).universities[i] =
                            [Old(p).universities[i] EXCEPT
                                !.scraped_at = New(p).universities[i].scraped_at]
                    ELSE New(p).universities[i] = Old(p).universities[i]

C7_Witness ==
    /\ pc[1] = "merged"
    /\ Given(1) = <<>>
    /\ \E i \in DOMAIN Old(1).universities :
          /\ Old(1).universities[i].url = url[1]
          /\ Old(1).universities[i].programs_count = 2
          /\ New(1).universities[i].scraped_at # Old(1).universities[i].scraped_at

\* C8: load_database never raises; from a missing or an unreadable file it
\* returns the empty Collection, from a readable one the stored content.
C8_LoadNeverRaises ==
    \A p \in Procs : "merge" \in Range(stages[p]) \/ pc[p] \in {"loaded", "merged"} =>
        /\ ~loaded[p].raised
        /\ loaded[p].from.state # "ok" => loaded[p].value = EmptyCollection
        /\ loaded[p].from.state = "ok" => loaded[p].value = loaded[p].from.data

C8_Witness ==
    /\ pc[2] = "loaded"
    /\ loaded[2].from.state = "corrupt"
    /\ database[2] = EmptyCollection

\* C9: when two runs sharing the file have both saved, the file holds exactly
\* the Collection of the run that saved last.
C9_LastWriterWins ==
    (\A p \in Procs : pc[p] = "done" /\ saved[p] = "true") =>
        /\ lastWriter \in Procs
        /\ file = [state |-> "ok", data |-> database[lastWriter]]

\* both saves succeeded and the file holds none of the records one run added
C9_LostUpdate ==
    /\ \A p \in Procs : pc[p] = "done" /\ saved[p] = "true"
    /\ file.state = "ok"
    /\ \E p \in Procs :
          /\ Given(p) # <<>>
          /\ \A i \in DOMAIN file.data.programs :
                file.data.programs[i].added_at # database[p].last_updated

\* C10: in every Collection reachable by merges of one caller, each University
\* Entry's programs_count is the number of Program Records with its url as
\* source_url, and the counts sum to total_programs.
C10_CountsMatchRecords ==
    \A c \in Collections :
        /\ \A i \in DOMAIN c.universities :
              c.universities[i].programs_count =
                  Cardinality({ j \in DOMAIN c.programs :
                                  c.programs[j].source_url = c.universities[i].url })
        /\ SumCounts(c.universities) = c.total_programs

C10_Witness ==
    /\ file.state = "ok"
    /\ Len(file.data.universities) = 2
    /\ file.data.total_programs = 4
    /\ \E i \in DOMAIN file.data.universities :
          /\ file.data.universities[i].programs_count = 3
          /\ file.data.universities[i].scraped_at = 3

=============================================================================
